---- MODULE Spec2Model ----
(***************************************************************************)
(* Model of the AuraPin Pinterest affiliate agent: agent_core.py (ledger,  *)
(* feed loader, enrichment, simulated publisher) driven by the two button  *)
(* handlers of the Streamlit script app.py.                                *)
(*                                                                         *)
(* Strings that the code inspects ('...' in s, not s) are tuples of        *)
(* one-character strings.  A feed row is represented by its product_id     *)
(* cell; the name, image and link cells of a row are not tracked, the      *)
(* answers of the services they are sent to are inputs of each step.       *)
(***************************************************************************)
EXTENDS Integers, Sequences, FiniteSets, TLC

(* ---------------- bounds of the model ---------------- *)
MaxFeed == 3
MaxBatch == 2
MaxPublish == 2

(* ---------------- values ---------------- *)
None == "None"
RawIds == {101, 102}

\* the uuid4 names of the simulated pins, in the order they are drawn
PinIds == <<"simulated_a", "simulated_b", "simulated_c", "simulated_d",
            "simulated_e", "simulated_f">>

\* str(product['product_id']) on the integer cells of the feed
str(x) == CASE x = 101 -> "101" [] x = 102 -> "102"

RequiredCols == {"product_name", "awin_deep_link", "product_image",
                 "description", "price", "product_id"}

\* text typed in a settings field: empty, a value holding the '...' marker,
\* a value holding two dots only, a plain value
TextValues == { <<>>, <<"k", ".", ".", ".">>, <<"k", ".", ".">>, <<"k">> }

\* '...' in s
HasPlaceholder(s) ==
    \E k \in 1..(Len(s) - 2) : s[k] = "." /\ s[k+1] = "." /\ s[k+2] = "."

\* not s or '...' in s
MissingSetting(s) == s = <<>> \/ HasPlaceholder(s)

Min(a, b) == IF a < b THEN a ELSE b

(* ---------------- 1. database module ---------------- *)
EmptyRows == [x \in {} |-> None]
NoDatabase == [table |-> FALSE, rows |-> EmptyRows]

\* CREATE TABLE IF NOT EXISTS posted_products
init_database(d) == [table |-> TRUE, rows |-> d.rows]

\* variant: the lookup never finds a row
is_product_posted_never(d, product_id) == FALSE

\* SELECT product_id ... WHERE product_id=? ; result is not None
is_product_posted(d, product_id) == product_id \in DOMAIN d.rows

\* variant: INSERT OR REPLACE, a present key is overwritten without an error
mark_product_posted_replace(d, product_id, pin_id, post_date) ==
    IF ~d.table
    THEN [db |-> d, error |-> "OperationalError"]
    ELSE [db |-> [table |-> TRUE,
                  rows |-> [x \in DOMAIN d.rows \cup {product_id} |->
                             IF x = product_id
                             THEN [pin_id |-> pin_id, post_date |-> post_date]
                             ELSE d.rows[x]]],
          error |-> None]

\* INSERT INTO posted_products: product_id is the PRIMARY KEY, so the insert
\* of a present key raises sqlite3.IntegrityError and writes nothing
mark_product_posted(d, product_id, pin_id, post_date) ==
    IF ~d.table
    THEN [db |-> d, error |-> "OperationalError"]
    ELSE IF product_id \in DOMAIN d.rows
    THEN [db |-> d, error |-> "IntegrityError"]
    ELSE [db |-> [table |-> TRUE,
                  rows |-> [x \in DOMAIN d.rows \cup {product_id} |->
                             IF x = product_id
                             THEN [pin_id |-> pin_id, post_date |-> post_date]
                             ELSE d.rows[x]]],
          error |-> None]

(* ---------------- 2. data fetching module ---------------- *)
Feeds == UNION { [1..n -> RawIds] : n \in 0..MaxFeed }

ColumnSets == { RequiredCols \ {c} : c \in RequiredCols } \cup
              { RequiredCols }

NoRequest == [kind |-> "no_request", columns |-> {}, ids |-> <<>>]

\* what requests.get and pd.read_csv give: a transport failure, text that
\* neither separator parses, or a table with its columns and rows
Responses ==
    { [kind |-> k, columns |-> {}, ids |-> <<>>] : k \in {"http_error", "parse_error"} }
    \cup { [kind |-> "table", columns |-> c, ids |-> f] : c \in ColumnSets, f \in Feeds }

\* variant: any(...) in place of all(...)
HasRequiredCols_any(columns) == \E col \in RequiredCols : col \in columns

\* all(col in df.columns for col in required_cols)
HasRequiredCols(columns) == \A col \in RequiredCols : col \in columns

fetch_awin_product_feed(awin_feed_url, resp) ==
    IF MissingSetting(awin_feed_url)
    THEN [df |-> <<>>, message |-> "invalid_url"]
    ELSE IF resp.kind = "http_error"
    THEN [df |-> <<>>, message |-> "fetch_error"]
    ELSE IF resp.kind = "parse_error"
    THEN [df |-> <<>>, message |-> "parse_error"]
    ELSE IF ~HasRequiredCols(resp.columns)
    THEN [df |-> <<>>, message |-> "missing_columns"]
    ELSE [df |-> resp.ids, message |-> "fetched"]

(* ---------------- 3. content enrichment module ---------------- *)
\* the ChatCompletion call is made only when use_openai is set and the key passes
OpenAICalled(use_openai, openai_api_key) ==
    use_openai /\ ~MissingSetting(openai_api_key)

generate_pin_description(use_openai, openai_api_key, completion) ==
    IF use_openai /\ MissingSetting(openai_api_key)
    THEN [desc |-> "key_missing_message", success |-> FALSE]
    ELSE IF use_openai /\ completion = "raise"
    THEN [desc |-> "openai_error_message", success |-> FALSE]
    ELSE IF use_openai /\ completion = "text"
    THEN [desc |-> "ai", success |-> TRUE]
    ELSE [desc |-> "template", success |-> TRUE]

\* variant: the except branch returns the save path as well
download_and_format_image_always(image) == "temp_images/uuid.jpg"

download_and_format_image(image) ==
    IF image = "ok" THEN "temp_images/uuid.jpg" ELSE None

(* ---------------- 4. pinterest api module ---------------- *)
\* variant: the board id is not checked
create_pin_noboard(pinterest_access_token, board_id, fresh) ==
    IF MissingSetting(pinterest_access_token)
    THEN [pin_id |-> None, message |-> "token_missing"]
    ELSE [pin_id |-> fresh, message |-> "pin_created"]

\* the simulated post: a fresh pin id unless a setting is missing
create_pin(pinterest_access_token, board_id, fresh) ==
    IF MissingSetting(pinterest_access_token)
    THEN [pin_id |-> None, message |-> "token_missing"]
    ELSE IF MissingSetting(board_id)
    THEN [pin_id |-> None, message |-> "board_missing"]
    ELSE [pin_id |-> fresh, message |-> "pin_created"]

(* ---------------- random.sample ---------------- *)
\* variant: sampling with replacement (random.choices)
RandomSamples_replace(n, k) == [1..k -> 1..n]

\* the position sequences random.sample(population, k) can draw: k distinct
\* positions of the population, in any order
RandomSamples(n, k) ==
    { s \in [1..k -> 1..n] : \A a, b \in 1..k : a # b => s[a] # s[b] }

\* unposted_products: the rows whose str(product_id) is not in the ledger
RECURSIVE FilterUnposted(_, _)
FilterUnposted(d, df) ==
    IF df = <<>> THEN <<>>
    ELSE IF ~is_product_posted(d, str(Head(df)))
         THEN <<Head(df)>> \o FilterUnposted(d, Tail(df))
         ELSE FilterUnposted(d, Tail(df))

(* ---------------- state ---------------- *)
VARIABLES
    db,                  \* pinterest_agent.db
    pins_to_review,      \* st.session_state.pins_to_review
    status,              \* the message the last handler step left (log / st.error / exception)
    published,           \* the pins the (simulated) Pinterest call created, in order
    approved,            \* positions of pins_to_review whose create_pin succeeded
    pc,                  \* position of the script: idle, select, process, done
    response,            \* the feed response of the current run
    products_df,         \* the fetched rows of the current run
    unposted_products,   \* rows left by the ledger filter
    products_to_process, \* the sampled batch
    loop_i,              \* position of the enrichment loop in the batch
    answers,             \* what the external services answered for each processed product
    run_settings         \* use_openai, openai_api_key, max_pins_per_run read by the run

vars == <<db, pins_to_review, status, published, approved, pc, response,
          products_df, unposted_products, products_to_process, loop_i,
          answers, run_settings>>

NoSettings == [use_openai |-> FALSE, openai_api_key |-> <<>>, max_pins_per_run |-> 0]

NoRun == /\ response' = NoRequest
         /\ products_df' = <<>>
         /\ unposted_products' = <<>>
         /\ products_to_process' = <<>>
         /\ loop_i' = 0
         /\ answers' = <<>>
         /\ run_settings' = NoSettings

Init ==
    /\ db = NoDatabase
    /\ pins_to_review = <<>>
    /\ status = "started"
    /\ published = <<>>
    /\ approved = {}
    /\ pc = "idle"
    /\ response = NoRequest
    /\ products_df = <<>>
    /\ unposted_products = <<>>
    /\ products_to_process = <<>>
    /\ loop_i = 0
    /\ answers = <<>>
    /\ run_settings = NoSettings

(* ---------------- "Fetch Products & Generate Pins" ---------------- *)
\* app.py 45-60: clear the queue, initialise the database, fetch the feed
ClickGenerate(awin_feed_url, resp) ==
    /\ pc = "idle"
    /\ resp \in (IF MissingSetting(awin_feed_url) THEN {NoRequest} ELSE Responses)
    /\ LET f == fetch_awin_product_feed(awin_feed_url, resp) IN
        /\ pins_to_review' = <<>>
        /\ approved' = {}
        /\ db' = init_database(db)
        /\ response' = resp
        /\ products_df' = f.df
        /\ status' = f.message
        /\ pc' = IF f.df # <<>> THEN "select" ELSE "done"
    /\ UNCHANGED <<published, unposted_products, products_to_process, loop_i,
                   answers, run_settings>>

\* app.py 61-73: filter against the ledger, sample the batch
SelectBatch(max_pins_per_run, use_openai, openai_api_key, sel) ==
    /\ pc = "select"
    /\ LET unposted == FilterUnposted(db, products_df)
           k == Min(Len(unposted), max_pins_per_run) IN
        /\ unposted_products' = unposted
        /\ run_settings' = [use_openai |-> use_openai,
                            openai_api_key |-> openai_api_key,
                            max_pins_per_run |-> max_pins_per_run]
        /\ IF unposted = <<>>
           THEN /\ sel = <<>>
                /\ status' = "all_posted"
                /\ products_to_process' = <<>>
                /\ loop_i' = 0
                /\ pc' = "done"
           ELSE /\ sel \in RandomSamples(Len(unposted), k)
                /\ status' = "found_new"
                /\ products_to_process' = [j \in 1..k |-> unposted[sel[j]]]
                /\ loop_i' = 1
                /\ pc' = "process"
    /\ UNCHANGED <<db, pins_to_review, published, approved, response,
                   products_df, answers>>

\* app.py 77-107: one iteration of the enrichment loop
ProcessProduct(completion, image) ==
    /\ pc = "process"
    /\ loop_i \in 1..Len(products_to_process)
    /\ completion \in (IF OpenAICalled(run_settings.use_openai, run_settings.openai_api_key)
                       THEN {"text", "empty", "raise"} ELSE {"not_called"})
    /\ LET product == products_to_process[loop_i]
           g == generate_pin_description(run_settings.use_openai,
                                         run_settings.openai_api_key, completion)
           img_path == download_and_format_image(image)
           last == loop_i = Len(products_to_process) IN
        /\ image \in (IF g.success THEN {"ok", "error"} ELSE {"not_requested"})
        /\ answers' = Append(answers, [completion |-> completion, image |-> image])
        /\ IF ~g.success
           THEN /\ pins_to_review' = pins_to_review
                /\ status' = IF last THEN "complete" ELSE "description_failed"
           ELSE IF img_path = None
           THEN /\ pins_to_review' = pins_to_review
                /\ status' = IF last THEN "complete" ELSE "image_failed"
           ELSE /\ pins_to_review' = Append(pins_to_review,
                        [product_id |-> str(product), description |-> g.desc,
                         image_path |-> img_path, product_url |-> product])
                /\ status' = IF last THEN "complete" ELSE "staged"
        /\ loop_i' = loop_i + 1
        /\ pc' = IF last THEN "done" ELSE "process"
    /\ UNCHANGED <<db, published, approved, response, products_df,
                   unposted_products, products_to_process, run_settings>>

\* the script run ends; its local variables are gone
FinishRun ==
    /\ pc = "done"
    /\ pc' = "idle"
    /\ NoRun
    /\ UNCHANGED <<db, pins_to_review, status, published, approved>>

(* ---------------- "Approve & Post to Pinterest" ---------------- *)
\* app.py 132-149 for the pin at position i of the review list
Approve(i, pinterest_access_token, pinterest_board_id) ==
    /\ pc = "idle"
    /\ i \in 1..Len(pins_to_review)
    /\ LET pin == pins_to_review[i]
           now == Len(published) + 1
           c == create_pin(pinterest_access_token, pinterest_board_id, PinIds[now])
           m == mark_product_posted(db, pin.product_id, c.pin_id, now) IN
        IF c.pin_id = None
        THEN /\ status' = c.message
             /\ UNCHANGED <<db, published, approved>>
        ELSE /\ Len(published) < MaxPublish
             /\ published' = Append(published,
                                    [pin_id |-> c.pin_id, product_url |-> pin.product_url])
             /\ approved' = approved \cup {i}
             /\ db' = m.db
             /\ status' = IF m.error = None THEN "posted" ELSE m.error
    /\ UNCHANGED <<pins_to_review, pc, response, products_df, unposted_products,
                   products_to_process, loop_i, answers, run_settings>>

Next ==
    \/ \E u \in TextValues, resp \in Responses \cup {NoRequest} : ClickGenerate(u, resp)
    \/ \E n \in 1..MaxBatch, use \in BOOLEAN, key \in TextValues,
          sel \in UNION { [1..k -> 1..MaxFeed] : k \in 0..MaxBatch } :
            SelectBatch(n, use, key, sel)
    \/ \E o \in {"text", "empty", "raise", "not_called"},
          img \in {"ok", "error", "not_requested"} : ProcessProduct(o, img)
    \/ FinishRun
    \/ \E i \in 1..MaxBatch, t \in TextValues, b \in TextValues : Approve(i, t, b)

Spec == Init /\ [][Next]_vars

(* ======================= properties ======================= *)
Ledger == DOMAIN db.rows
InRun == pc \in {"process", "done"} /\ run_settings # NoSettings
ApproveInputs == (1..MaxBatch) \X TextValues \X TextValues

\* C1: the batch the intake step produces never holds a product whose
\* identifier is in the ledger at the time the batch is generated.
C1_BatchExcludesLedger ==
    InRun => \A j \in 1..Len(products_to_process) :
                 str(products_to_process[j]) \notin Ledger

C1_Witness ==
    /\ pc = "process"
    /\ products_to_process # <<>>
    /\ \E j \in 1..Len(products_df) : str(products_df[j]) \in Ledger

\* C2: a second approval of a candidate whose approval already published it
\* never calls create_pin successfully again (no second pin for that candidate).
C2_NoSecondPublish ==
    [][\A a \in ApproveInputs :
          (Approve(a[1], a[2], a[3]) /\ a[1] \in approved) => published' = published]_vars

\* the pins the platform created for the product id
PinsOf(id) == { k \in 1..Len(published) : str(published[k].product_url) = id }
FirstPinOf(id) == CHOOSE k \in PinsOf(id) : \A m \in PinsOf(id) : k <= m

\* C3: recording an identifier that is already in the ledger fails with the
\* duplicate-key error and writes nothing; recording an absent one adds exactly
\* that entry; so however often an identifier is recorded the ledger holds one
\* entry for it, the first one.
C3_DuplicateKey ==
    /\ [](\A id \in {str(x) : x \in RawIds} :
             /\ (PinsOf(id) # {}) = (id \in Ledger)
             /\ id \in Ledger =>
                   db.rows[id] = [pin_id |-> published[FirstPinOf(id)].pin_id,
                                  post_date |-> FirstPinOf(id)])
    /\ [][\A a \in ApproveInputs :
             (published' # published /\ Approve(a[1], a[2], a[3])) =>
                LET id == pins_to_review[a[1]].product_id IN
                IF id \in Ledger
                THEN status' = "IntegrityError" /\ db' = db
                ELSE /\ status' = "posted"
                     /\ DOMAIN db'.rows = Ledger \cup {id}
                     /\ Cardinality(DOMAIN db'.rows) = Cardinality(Ledger) + 1
                     /\ \A x \in Ledger : db'.rows[x] = db.rows[x]]_vars

C3_Witness ==
    /\ status = "IntegrityError"
    /\ Len(published) = 2
    /\ published[1].product_url = published[2].product_url
    /\ Cardinality(Ledger) = 1

\* the review list without its position i
RemoveAt(q, i) == [j \in 1..(Len(q) - 1) |-> IF j < i THEN q[j] ELSE q[j + 1]]

\* C4: approving a pending candidate whose publish succeeds adds exactly one
\* ledger entry (its identifier), removes exactly that candidate from the
\* review list and leaves the other candidates as they were.
C4_ApproveEffect ==
    [][\A a \in ApproveInputs :
          (Approve(a[1], a[2], a[3]) /\ a[1] \notin approved /\ published' # published) =>
             /\ pins_to_review' = RemoveAt(pins_to_review, a[1])
             /\ Cardinality(DOMAIN db'.rows) = Cardinality(Ledger) + 1
             /\ pins_to_review[a[1]].product_id \in DOMAIN db'.rows]_vars

\* C5: an approve that reaches mark_product_posted for an identifier already
\* in the ledger ends in a handled outcome with the ledger unchanged, not in
\* an uncaught IntegrityError.
C5_DuplicateHandled ==
    [][\A a \in ApproveInputs :
          (/\ Approve(a[1], a[2], a[3])
           /\ published' # published
           /\ pins_to_review[a[1]].product_id \in Ledger) =>
             db' = db /\ status' # "IntegrityError"]_vars

\* C6: when the external text-generation call raises, enrichment goes on with
\* the template description: the image is requested and, if it succeeds, the
\* product is staged with a template description.
C6_GenerationFallback ==
    [][\A img \in {"ok", "error", "not_requested"} :
          ProcessProduct("raise", img) =>
             /\ img # "not_requested"
             /\ img = "ok" =>
                   /\ Len(pins_to_review') = Len(pins_to_review) + 1
                   /\ pins_to_review'[Len(pins_to_review')].description = "template"]_vars

\* the products of the processed prefix whose image came back
RECURSIVE StagedIds(_, _)
StagedIds(batch, ans) ==
    IF ans = <<>> THEN <<>>
    ELSE LET n == Len(ans)
             rest == StagedIds(batch, SubSeq(ans, 1, n - 1)) IN
         IF ans[n].image = "ok" THEN Append(rest, str(batch[n])) ELSE rest

\* C7: an image failure drops only its own product: at every point of the
\* loop the review list holds exactly the processed products whose image was
\* obtained, in batch order, and the run reaches its end with every product
\* of the batch processed.
C7_ImageFailureIsLocal ==
    InRun =>
       /\ [j \in 1..Len(pins_to_review) |-> pins_to_review[j].product_id]
             = StagedIds(products_to_process, answers)
       /\ pc = "process" => loop_i = Len(answers) + 1 /\ loop_i <= Len(products_to_process)
       /\ (pc = "done" /\ products_to_process # <<>>) =>
             Len(answers) = Len(products_to_process) /\ status = "complete"

C7_Witness ==
    /\ pc = "done"
    /\ Len(answers) = 2
    /\ answers[1].image = "error"
    /\ answers[2].image = "ok"
    /\ Len(pins_to_review) = 1

\* C8: the sample holds min(M, N) rows of the M unposted rows, N being
\* max_pins_per_run, taken from pairwise distinct positions.
C8_SampleSize ==
    InRun =>
       LET M == Len(unposted_products)
           N == run_settings.max_pins_per_run
           k == Len(products_to_process) IN
       /\ M >= N => k = N
       /\ M < N => k = M
       /\ \E s \in [1..k -> 1..M] :
             /\ \A a, b \in 1..k : a # b => s[a] # s[b]
             /\ \A j \in 1..k : products_to_process[j] = unposted_products[s[j]]

C8_Witness ==
    /\ pc = "process"
    /\ Len(unposted_products) = 3
    /\ run_settings.max_pins_per_run = 2
    /\ Len(products_to_process) = 2
    /\ products_to_process[1] # products_to_process[2]

MissingColumn == response.kind = "table" /\ ~(RequiredCols \subseteq response.columns)

\* C9: a feed table that lacks a required column gives the missing-columns
\* message and no rows: nothing is sampled or staged, and the ledger is the
\* same as before the run.
C9_MissingColumn ==
    /\ [](MissingColumn =>
             /\ pc = "done"
             /\ status = "missing_columns"
             /\ products_df = <<>>
             /\ products_to_process = <<>>
             /\ pins_to_review = <<>>)
    /\ [][MissingColumn' => db'.rows = db.rows]_vars

C9_Witness ==
    /\ MissingColumn
    /\ Len(response.ids) = 3
    /\ Ledger # {}

\* C10: every ledger entry holds the pin id of a pin that create_pin made for
\* that product, and an approve with a missing or placeholder access token or
\* board id changes neither the ledger nor the review list (and makes no pin).
C10_PublishThenRecord ==
    /\ [](\A id \in Ledger :
             \E k \in 1..Len(published) :
                /\ published[k].pin_id = db.rows[id].pin_id
                /\ str(published[k].product_url) = id)
    /\ [][\A a \in ApproveInputs :
             (/\ pc = "idle" /\ pc' = "idle"
              /\ MissingSetting(a[2]) \/ MissingSetting(a[3])
              /\ Approve(a[1], a[2], a[3])) =>
                /\ db' = db
                /\ pins_to_review' = pins_to_review
                /\ published' = published
                /\ status' \in {"token_missing", "board_missing"}]_vars

C10_Witness ==
    /\ status = "board_missing"
    /\ Ledger # {}
    /\ pins_to_review # <<>>
====
